---------------------------- MODULE Spec2Model ----------------------------
(***************************************************************************)
(* A model of src/app.py: the platform adapters' authenticated gate, the   *)
(* SocialMediaPost export, CustomFilter, and the Multipass aggregator.     *)
(*                                                                         *)
(* What the remote platform libraries do (tweepy, praw, ...) is the        *)
(* environment: each library call either returns or raises.  The posts an  *)
(* adapter's get_posts() hands to the aggregator are taken to be           *)
(* well-formed SocialMediaPost objects (platform, post_id, content,        *)
(* timestamp, metadata) of that adapter: the argument order the concrete   *)
(* adapters use when they construct a SocialMediaPost is not modelled.     *)
(***************************************************************************)
EXTENDS Integers, Sequences, FiniteSets, TLC

\* Upper bound on the number of posts all adapters return in one pass.
MaxFetch == 3
\* Upper bound on the length of the list handed to filter_posts.
MaxInput == 2
\* Upper bound on the number of filters a Multipass is constructed with.
MaxFilters == 2
\* Upper bound on the length of one get_posts() result in the threaded runs.
MaxConcFetch == 1

VARIABLES
    authenticated,  \* Platform.authenticated, per adapter instance
    posts,          \* Multipass.posts
    post_ids,       \* Multipass.post_ids
    filters,        \* Multipass.filters
    feed,           \* the list the last returning Multipass.get_posts() returned
    prev_feed,      \* the list the returning get_posts() before that one returned
    authOk,         \* history: adapters on which an authenticate() call has returned
    fetched,        \* history: identities of the posts the adapters have returned so far
    ret,            \* outcome of the last call: what was called, what it raised
    pc,             \* per thread: position inside a concurrent aggregate_posts()
    loc             \* per thread: locals of aggregate_posts (platform index, fetched list)

vars == <<authenticated, posts, post_ids, filters, feed, prev_feed, authOk, fetched, ret, pc, loc>>

----------------------------------------------------------------------------
\* The adapter classes of the source, one instance of each.
Adapters == {"Twitter", "Mastodon", "Reddit", "Facebook", "Instagram", "YouTube"}

\* The classes a CustomFilter can name: an adapter class or the base class.
Classes == Adapters \cup {"Platform"}

\* isinstance(adapter, cls): every adapter class derives directly from Platform.
IsInstance(adapter, cls) == cls = "Platform" \/ cls = adapter

\* Multipass.platforms: the adapters the aggregator is constructed with.
Platforms == <<"Twitter", "Reddit">>

PostIds == {"a", "b", "c"}

NoMetadata == [kind |-> "None", items |-> <<>>]

\* SocialMediaPost(platform, post_id, content, timestamp), metadata left None.
SocialMediaPost(platform, post_id, timestamp) ==
    [platform |-> platform, post_id |-> post_id, content |-> "text",
     timestamp |-> timestamp, metadata |-> NoMetadata]

\* The posts on the timeline of adapter a, which get_posts() can return:
\* post id "a" is in use on both platforms; timestamps tie and differ.
PostsOf(a) ==
    IF a = "Twitter"
    THEN {SocialMediaPost(a, "a", 100), SocialMediaPost(a, "b", 200)}
    ELSE {SocialMediaPost(a, "a", 100), SocialMediaPost(a, "c", 200)}

\* Index of adapter a in Multipass.platforms.
IndexOf(a) == CHOOSE i \in DOMAIN Platforms : Platforms[i] = a

FetchedPosts == UNION {PostsOf(Platforms[i]) : i \in DOMAIN Platforms}

\* The lists the adapters return in one pass, concatenated in the order of
\* Multipass.platforms: the posts of an earlier adapter come first.
Batches ==
    {b \in UNION {[1..n -> FetchedPosts] : n \in 0..MaxFetch} :
        \A i \in 1..(Len(b) - 1) :
            IndexOf(b[i].platform) <= IndexOf(b[i + 1].platform)}

Identity(p) == <<p.platform, p.post_id>>

----------------------------------------------------------------------------
\* Multipass.aggregate_posts, the inner loop over the fetched posts: a post
\* whose post_id is not in post_ids is appended and its post_id added.
\* (mutant: the membership test left out)
AccumulateNoCheck(ps, ids, batch) ==
    [posts |-> ps \o batch, post_ids |-> ids \cup {batch[i].post_id : i \in DOMAIN batch}]

\* (mutant: the list is rebuilt from what this pass returned)
AccumulateOverwrite(ps, ids, batch) ==
    [posts |-> batch, post_ids |-> ids \cup {batch[i].post_id : i \in DOMAIN batch}]

RECURSIVE Accumulate(_, _, _)
Accumulate(ps, ids, batch) ==
    IF batch = <<>> THEN [posts |-> ps, post_ids |-> ids]
    ELSE LET post == Head(batch) IN
         IF post.post_id \notin ids
         THEN Accumulate(Append(ps, post), ids \cup {post.post_id}, Tail(batch))
         ELSE Accumulate(ps, ids, Tail(batch))

----------------------------------------------------------------------------
\* Platform adapters.

\* How an authenticate() call can end.  "ok": it returns.  "raise_before": a
\* library call before `self.authenticated = True` raises.  "raise_after": a
\* call after that line raises.  Mastodon.authenticate calls Mastodon(...),
\* which names the adapter class itself (it shadows the imported library
\* class) and takes no arguments: it always raises.  YouTube.authenticate
\* sets the flag and then queries the channel list.
AuthOutcomes(a) ==
    CASE a = "Mastodon" -> {"raise_before"}
      [] a = "YouTube"  -> {"ok", "raise_before", "raise_after"}
      [] OTHER          -> {"ok", "raise_before"}

AuthExc(a, outcome) ==
    IF outcome = "ok" THEN "none"
    ELSE IF a = "Mastodon" THEN "TypeError" ELSE "LibraryError"

\* How the body of post() past the authenticated gate can end.  YouTube.post
\* reads post.title and post.body, which a SocialMediaPost does not have.
PostBodyOutcomes(a) ==
    IF a = "YouTube" THEN {"AttributeError"} ELSE {"none", "LibraryError"}

\* adapter.post(*args) with nargs positional arguments: the method takes one
\* (the post); the gate is the first statement of the body.
PostCall(a, nargs, body) ==
    IF nargs # 1 THEN "TypeError"
    ELSE IF ~authenticated[a] THEN "NotAuthenticated"
    ELSE body

\* adapter.get_posts(): the gate, then the library call.
GetPostsCall(a, body) ==
    IF ~authenticated[a] THEN "NotAuthenticated" ELSE body

Threads == {1, 2}

\* No thread is inside a concurrent aggregate_posts().
Quiet == UNCHANGED <<pc, loc>>

Authenticate(a) ==
    \E outcome \in AuthOutcomes(a) :
        /\ authenticated' =
             IF outcome = "raise_before" THEN authenticated
             ELSE [authenticated EXCEPT ![a] = TRUE]
        /\ authOk' = IF outcome = "ok" THEN authOk \cup {a} ELSE authOk
        /\ ret' = [op |-> "authenticate", who |-> a, exc |-> AuthExc(a, outcome)]
        /\ UNCHANGED <<posts, post_ids, filters, feed, prev_feed, fetched>>
        /\ Quiet

Post(a) ==
    \E body \in PostBodyOutcomes(a) :
        /\ ret' = [op |-> "post", who |-> a, exc |-> PostCall(a, 1, body)]
        /\ UNCHANGED <<authenticated, authOk, posts, post_ids, filters, feed, prev_feed, fetched>>
        /\ Quiet

PlatformGetPosts(a) ==
    \E body \in {"none", "LibraryError"} :
        /\ ret' = [op |-> "get_posts", who |-> a, exc |-> GetPostsCall(a, body)]
        /\ UNCHANGED <<authenticated, authOk, posts, post_ids, filters, feed, prev_feed, fetched>>
        /\ Quiet

InitAdapter ==
    /\ authenticated = [a \in Adapters |-> FALSE]
    /\ authOk = {}
    /\ posts = <<>>
    /\ post_ids = {}
    /\ filters = <<>>
    /\ feed = <<>>
    /\ prev_feed = <<>>
    /\ fetched = {}
    /\ ret = [op |-> "init", who |-> "none", exc |-> "none"]
    /\ pc = [t \in Threads |-> "idle"]
    /\ loc = [t \in Threads |-> [i |-> 0, todo |-> <<>>]]

NextAdapter ==
    \E a \in Adapters : Authenticate(a) \/ Post(a) \/ PlatformGetPosts(a)

SpecAdapter == InitAdapter /\ [][NextAdapter]_vars

----------------------------------------------------------------------------
\* SocialMediaPost.to_rss_item

ReservedKeys == {"title", "link", "description", "guid", "pubDate"}

\* No adapter class of the source defines get_post_url; an adapter class
\* written by the caller ("CallerAdapter") may.
HasGetPostUrl(platform) == platform \notin Adapters

GetPostUrl(platform, post_id) ==
    IF post_id = "a" THEN "https://example/a" ELSE "https://example/b"

\* dict.update: the keys of `other` overwrite those of `item`.
Update(item, other) ==
    [k \in DOMAIN item \cup DOMAIN other |->
        IF k \in DOMAIN other THEN other[k] ELSE item[k]]

\* The five assignments of to_rss_item, in order.
BaseItem(post) ==
    [title |-> post.content,
     link |-> GetPostUrl(post.platform, post.post_id),
     description |-> post.content,
     guid |-> post.post_id,
     pubDate |-> post.timestamp]

ToRssItem(post) ==
    IF ~HasGetPostUrl(post.platform)
    THEN [exc |-> "AttributeError", item |-> <<>>]
    ELSE IF post.metadata.kind = "None"
    THEN [exc |-> "TypeError", item |-> <<>>]
    ELSE [exc |-> "none", item |-> Update(BaseItem(post), post.metadata.items)]

\* [post.to_rss_item() for post in posts]: the first call that raises ends it.
RECURSIVE ToRssItems(_)
ToRssItems(ps) ==
    IF ps = <<>> THEN [exc |-> "none", items |-> <<>>]
    ELSE LET first == ToRssItem(Head(ps)) IN
         IF first.exc # "none" THEN [exc |-> first.exc, items |-> <<>>]
         ELSE LET rest == ToRssItems(Tail(ps)) IN
              IF rest.exc # "none" THEN rest
              ELSE [exc |-> "none", items |-> <<first.item>> \o rest.items]

----------------------------------------------------------------------------
\* CustomFilter and Multipass.filter_posts

\* The conditions a CustomFilter is constructed with: None, or a callable.
Conditions == {"None", "recent", "is_a"}

Condition(c, post) ==
    IF c = "recent" THEN post.timestamp >= 200 ELSE post.post_id = "a"

\* CustomFilter.__call__
CallFilter(f, post) ==
    IsInstance(post.platform, f.platform)
        /\ (f.condition = "None" \/ Condition(f.condition, post))

\* (mutant: any() in place of all())
AnyFilter(fs, post) == \E i \in DOMAIN fs : CallFilter(fs[i], post)

\* all(f(post) for f in self.filters): stops at the first filter that fails.
RECURSIVE AllFilters(_, _)
AllFilters(fs, post) ==
    IF fs = <<>> THEN TRUE
    ELSE IF ~CallFilter(Head(fs), post) THEN FALSE
    ELSE AllFilters(Tail(fs), post)

\* The list comprehension of filter_posts.
RECURSIVE FilterList(_, _)
FilterList(fs, ps) ==
    IF ps = <<>> THEN <<>>
    ELSE IF AllFilters(fs, Head(ps))
         THEN <<Head(ps)>> \o FilterList(fs, Tail(ps))
         ELSE FilterList(fs, Tail(ps))

----------------------------------------------------------------------------
\* Multipass

\* (mutant: ascending sort, then reversed)
RECURSIVE InsertAsc(_, _)
InsertAsc(s, x) ==
    IF s = <<>> THEN <<x>>
    ELSE IF Head(s).timestamp <= x.timestamp
         THEN <<Head(s)>> \o InsertAsc(Tail(s), x)
         ELSE <<x>> \o s

RECURSIVE SortAscFrom(_, _)
SortAscFrom(acc, rest) ==
    IF rest = <<>> THEN acc
    ELSE SortAscFrom(InsertAsc(acc, Head(rest)), Tail(rest))

SortReversed(s) ==
    LET asc == SortAscFrom(<<>>, s)
    IN [i \in 1..Len(asc) |-> asc[Len(asc) + 1 - i]]

\* x goes behind every element whose timestamp is not smaller.
RECURSIVE InsertDesc(_, _)
InsertDesc(s, x) ==
    IF s = <<>> THEN <<x>>
    ELSE IF Head(s).timestamp >= x.timestamp
         THEN <<Head(s)>> \o InsertDesc(Tail(s), x)
         ELSE <<x>> \o s

RECURSIVE SortFrom(_, _)
SortFrom(acc, rest) ==
    IF rest = <<>> THEN acc
    ELSE SortFrom(InsertDesc(acc, Head(rest)), Tail(rest))

\* self.posts.sort(key=lambda x: x.timestamp, reverse=True): a stable sort,
\* descending; posts with equal timestamps keep their order.
SortPosts(s) == SortFrom(<<>>, s)

N == Len(Platforms)

\* The first call of a loop over the platforms that raises (0: none does).
FirstRaise(r) ==
    IF \A i \in 1..N : r[i] = "none" THEN 0
    ELSE CHOOSE i \in 1..N : r[i] # "none" /\ \A j \in 1..(i - 1) : r[j] = "none"

\* The batches the adapters before platform index `at` can have returned
\* (at = 0: every adapter returned).
BatchesBefore(at) ==
    IF at = 0 THEN Batches
    ELSE {b \in Batches : \A i \in DOMAIN b : IndexOf(b[i].platform) < at}

\* How the library calls of one loop over the platforms end: the call of at
\* most one platform k raises (the loop does not get past it).
Bodies == {[i \in 1..N |-> IF i = k THEN "LibraryError" ELSE "none"] : k \in 0..N}

\* Where a loop of get_posts() calls over the platforms raises, and what:
\* body[i] is how the library call of platform i ends.
RaisedAt(body) == FirstRaise([i \in 1..N |-> GetPostsCall(Platforms[i], body[i])])

Raised(body) ==
    IF RaisedAt(body) = 0 THEN "none"
    ELSE GetPostsCall(Platforms[RaisedAt(body)], body[RaisedAt(body)])

\* Multipass.aggregate_posts: the loop over self.platforms.  batch is what
\* the platforms that returned have returned.  A get_posts() that raises
\* ends the loop and the exception leaves aggregate_posts; what was
\* accumulated before stays.  The result is the new (posts, post_ids).
Aggregate(batch) == Accumulate(posts, post_ids, batch)

Saw(batch) == fetched \cup {Identity(batch[i]) : i \in DOMAIN batch}

Outcome(op, body) ==
    [op |-> op, who |-> "Multipass", exc |-> Raised(body), at |-> RaisedAt(body)]

AggregatePosts ==
    \E body \in Bodies : \E batch \in BatchesBefore(RaisedAt(body)) :
      LET acc == Aggregate(batch)
      IN
        /\ posts' = acc.posts
        /\ post_ids' = acc.post_ids
        /\ fetched' = Saw(batch)
        /\ ret' = [op |-> "aggregate_posts", who |-> "Multipass", exc |-> Raised(body),
                   at |-> RaisedAt(body), n |-> Len(batch)]
        /\ UNCHANGED <<authenticated, authOk, filters, feed, prev_feed>>
        /\ Quiet

\* Multipass.get_posts: aggregate, sort self.posts in place, return it.
GetPosts ==
    \E body \in Bodies : \E batch \in BatchesBefore(RaisedAt(body)) :
      LET acc == Aggregate(batch)
      IN
        /\ posts' = IF Raised(body) = "none" THEN SortPosts(acc.posts) ELSE acc.posts
        /\ post_ids' = acc.post_ids
        /\ fetched' = Saw(batch)
        /\ feed' = IF Raised(body) = "none" THEN posts' ELSE feed
        /\ prev_feed' = IF Raised(body) = "none" THEN feed ELSE prev_feed
        /\ ret' = Outcome("get_posts", body)
        /\ UNCHANGED <<authenticated, authOk, filters>>
        /\ Quiet

\* Multipass.multi_post: platform.post(content, metadata) on each platform,
\* two positional arguments; the first call that raises ends the loop.
MultiPost ==
    \E body \in Bodies :
        LET r == [i \in 1..N |-> PostCall(Platforms[i], 2, body[i])]
            at == FirstRaise(r)
        IN /\ ret' = [op |-> "multi_post", who |-> "Multipass",
                      exc |-> IF at = 0 THEN "none" ELSE r[at],
                      at |-> at, n |-> IF at = 0 THEN N ELSE at]
           /\ UNCHANGED <<authenticated, authOk, posts, post_ids, filters, feed, prev_feed, fetched>>
           /\ Quiet

\* filter_platform of multi_feed: None, or a platform name.
FilterPlatforms == {"None", "Twitter"}

\* Multipass.multi_feed: aggregate; with a filter_platform, compare
\* post.platform.name (an attribute no adapter has) of every post; export.
MultiFeed ==
    \E body \in Bodies : \E batch \in BatchesBefore(RaisedAt(body)) :
      \E filter_platform \in FilterPlatforms :
        LET acc == Aggregate(batch)
            export == ToRssItems(acc.posts)
            exc == IF Raised(body) # "none" THEN Raised(body)
                   ELSE IF filter_platform # "None" /\ acc.posts # <<>>
                        THEN "AttributeError"
                   ELSE export.exc
        IN /\ posts' = acc.posts
           /\ post_ids' = acc.post_ids
           /\ fetched' = Saw(batch)
           /\ ret' = [op |-> "multi_feed", who |-> "Multipass", exc |-> exc,
                      at |-> RaisedAt(body),
                      val |-> IF exc = "none" THEN export.items ELSE <<>>]
           /\ UNCHANGED <<authenticated, authOk, filters, feed, prev_feed>>
           /\ Quiet

\* Multipass.filter_posts(input): a new list; self.posts is not touched.
FilterPosts(input) ==
    /\ ret' = [op |-> "filter_posts", who |-> "Multipass", exc |-> "none",
               arg |-> input, val |-> FilterList(filters, input)]
    /\ UNCHANGED <<authenticated, authOk, posts, post_ids, filters, feed, prev_feed, fetched>>
    /\ Quiet

\* The filter list the aggregator of Spec is constructed with.
TwitterOnly == <<[platform |-> "Twitter", condition |-> "None"]>>

\* Multipass.__init__ over adapters that Platform.__init__ has just built.
Init ==
    /\ authenticated = [a \in Adapters |-> FALSE]
    /\ authOk = {}
    /\ posts = <<>>
    /\ post_ids = {}
    /\ filters = TwitterOnly
    /\ feed = <<>>
    /\ prev_feed = <<>>
    /\ fetched = {}
    /\ ret = [op |-> "init", who |-> "none", exc |-> "none"]
    /\ pc = [t \in Threads |-> "idle"]
    /\ loc = [t \in Threads |-> [i |-> 0, todo |-> <<>>]]

Next ==
    \/ \E i \in 1..N : Authenticate(Platforms[i])
    \/ AggregatePosts
    \/ GetPosts
    \/ MultiPost
    \/ MultiFeed
    \/ FilterPosts(posts)

Spec == Init /\ [][Next]_vars

----------------------------------------------------------------------------
\* filter_posts over any input list, for any filter list of the constructor.

FilterChoices ==
    [platform : {"Platform", "Twitter", "Reddit", "Mastodon"}, condition : Conditions]

FilterLists == UNION {[1..n -> FilterChoices] : n \in 0..MaxFilters}

Inputs == UNION {[1..n -> FetchedPosts] : n \in 0..MaxInput}

InitFilter ==
    /\ authenticated = [a \in Adapters |-> FALSE]
    /\ authOk = {}
    /\ posts = <<>>
    /\ post_ids = {}
    /\ filters \in FilterLists
    /\ feed = <<>>
    /\ prev_feed = <<>>
    /\ fetched = {}
    /\ ret = [op |-> "init", who |-> "none", exc |-> "none"]
    /\ pc = [t \in Threads |-> "idle"]
    /\ loc = [t \in Threads |-> [i |-> 0, todo |-> <<>>]]

NextFilter == \E input \in Inputs : FilterPosts(input)

SpecFilter == InitFilter /\ [][NextFilter]_vars

----------------------------------------------------------------------------
\* to_rss_item over any post.

MetaKeys == ReservedKeys \cup {"author"}

\* The value a metadata dict holds under key k.
MetaValue(k) == IF k = "pubDate" THEN 999 ELSE "from-metadata"

Metadatas ==
    {NoMetadata} \cup
    {[kind |-> "dict", items |-> [k \in keys |-> MetaValue(k)]] : keys \in SUBSET MetaKeys}

RssPosts ==
    [platform : {"Twitter", "CallerAdapter"}, post_id : PostIds, content : {"text"},
     timestamp : {100, 200}, metadata : Metadatas]

ToRssItemCall(post) ==
    /\ ret' = [op |-> "to_rss_item", who |-> post.platform, exc |-> ToRssItem(post).exc,
               arg |-> post, val |-> ToRssItem(post).item]
    /\ UNCHANGED <<authenticated, authOk, posts, post_ids, filters, feed, prev_feed, fetched>>
    /\ Quiet

InitRss ==
    /\ authenticated = [a \in Adapters |-> FALSE]
    /\ authOk = {}
    /\ posts = <<>>
    /\ post_ids = {}
    /\ filters = <<>>
    /\ feed = <<>>
    /\ prev_feed = <<>>
    /\ fetched = {}
    /\ ret = [op |-> "init", who |-> "none", exc |-> "none"]
    /\ pc = [t \in Threads |-> "idle"]
    /\ loc = [t \in Threads |-> [i |-> 0, todo |-> <<>>]]

NextRss == \E post \in RssPosts : ToRssItemCall(post)

SpecRss == InitRss /\ [][NextRss]_vars

----------------------------------------------------------------------------
\* Two threads inside aggregate_posts() of the same Multipass.  Nothing in
\* the class takes a lock; a thread switch can fall between the membership
\* test, the append and the add.

InFlight(t) == pc[t] \notin {"idle", "done", "raised"}

\* The lists one get_posts() call of adapter a can return.
Timelines(a) == UNION {[1..n -> PostsOf(a)] : n \in 0..MaxConcFetch}

\* The position after platform i is done with: the next platform, or the end.
NextPlatform(t, i) ==
    IF i < N
    THEN /\ pc' = [pc EXCEPT ![t] = "fetch"]
         /\ loc' = [loc EXCEPT ![t] = [i |-> i + 1, todo |-> <<>>]]
    ELSE /\ pc' = [pc EXCEPT ![t] = "done"]
         /\ loc' = [loc EXCEPT ![t] = [i |-> 0, todo |-> <<>>]]

\* The position after the current post is done with.
NextPost(t) ==
    IF Tail(loc[t].todo) # <<>>
    THEN /\ pc' = [pc EXCEPT ![t] = "check"]
         /\ loc' = [loc EXCEPT ![t].todo = Tail(@)]
    ELSE NextPlatform(t, loc[t].i)

\* The call of aggregate_posts(): the loop starts with the first platform.
Begin(t) ==
    /\ pc[t] = "idle"
    /\ pc' = [pc EXCEPT ![t] = "fetch"]
    /\ loc' = [loc EXCEPT ![t] = [i |-> 1, todo |-> <<>>]]
    /\ UNCHANGED <<authenticated, authOk, posts, post_ids, filters, feed, prev_feed, fetched, ret>>

\* platform_posts = platform.get_posts()
Fetch(t) ==
    /\ pc[t] = "fetch"
    /\ \E body \in {"none", "LibraryError"} :
         LET a == Platforms[loc[t].i] IN
         IF GetPostsCall(a, body) # "none"
         THEN /\ pc' = [pc EXCEPT ![t] = "raised"]
              /\ loc' = [loc EXCEPT ![t] = [i |-> 0, todo |-> <<>>]]
              /\ fetched' = fetched
         ELSE \E list \in Timelines(a) :
              /\ fetched' = Saw(list)
              /\ IF list = <<>> THEN NextPlatform(t, loc[t].i)
                 ELSE /\ pc' = [pc EXCEPT ![t] = "check"]
                      /\ loc' = [loc EXCEPT ![t].todo = list]
    /\ UNCHANGED <<authenticated, authOk, posts, post_ids, filters, feed, prev_feed, ret>>

\* if post.post_id not in self.post_ids
Check(t) ==
    /\ pc[t] = "check"
    /\ IF Head(loc[t].todo).post_id \notin post_ids
       THEN pc' = [pc EXCEPT ![t] = "append"] /\ loc' = loc
       ELSE NextPost(t)
    /\ UNCHANGED <<authenticated, authOk, posts, post_ids, filters, feed, prev_feed, fetched, ret>>

\* self.posts.append(post)
AppendPost(t) ==
    /\ pc[t] = "append"
    /\ posts' = Append(posts, Head(loc[t].todo))
    /\ pc' = [pc EXCEPT ![t] = "add"]
    /\ UNCHANGED <<authenticated, authOk, post_ids, filters, feed, prev_feed, fetched, ret, loc>>

\* self.post_ids.add(post.post_id)
AddId(t) ==
    /\ pc[t] = "add"
    /\ post_ids' = post_ids \cup {Head(loc[t].todo).post_id}
    /\ NextPost(t)
    /\ UNCHANGED <<authenticated, authOk, posts, filters, feed, prev_feed, fetched, ret>>

NextConc ==
    \/ \E i \in 1..N : Authenticate(Platforms[i])
    \/ \E t \in Threads : Begin(t)
    \/ \E t \in Threads : Fetch(t)
    \/ \E t \in Threads : Check(t)
    \/ \E t \in Threads : AppendPost(t)
    \/ \E t \in Threads : AddId(t)

SpecConc == Init /\ [][NextConc]_vars

----------------------------------------------------------------------------
\* Claims

\* C1: no two posts of the accumulated list share (platform, post_id),
\* whatever the adapters return, in the same pass or a later one.
C1_NoDuplicateIdentity ==
    \A i, j \in DOMAIN posts : i # j => Identity(posts[i]) # Identity(posts[j])

\* A pass that returned more posts than distinct identities were ever seen:
\* the same post came twice in that pass, and the list is not empty.
C1_Witness ==
    /\ ret.op = "aggregate_posts" /\ ret.exc = "none"
    /\ ret.n > Cardinality(fetched)
    /\ posts # <<>>

\* C2: the deduplication key is (platform, post_id): every identity an
\* adapter has returned is in the accumulated list, also when another
\* adapter's post carries the same post_id.
C2_PlatformScopedIdentity ==
    \A id \in fetched : \E i \in DOMAIN posts : Identity(posts[i]) = id

\* C3: what get_posts returns is non-increasing in timestamp, and two
\* get_posts calls in a row between which nothing was accumulated (the two
\* lists are equally long) return the same sequence.
C3_SortedStableFeed ==
    /\ \A i \in 1..(Len(feed) - 1) : feed[i].timestamp >= feed[i + 1].timestamp
    /\ Len(prev_feed) = Len(feed) => prev_feed = feed

\* get_posts returned twice with nothing new in between, three posts in the
\* list, the first two with equal timestamps.
C3_Witness ==
    /\ ret.op = "get_posts" /\ ret.exc = "none"
    /\ Len(feed) = 3 /\ prev_feed = feed
    /\ feed[1].timestamp = feed[2].timestamp

\* C4: when the fetch of one adapter fails and another adapter can be
\* fetched, aggregate_posts does not raise.
C4_PartialFailure ==
    (/\ ret.op = "aggregate_posts"
     /\ ret.at # 0
     /\ \E i \in 1..N : i # ret.at /\ authenticated[Platforms[i]])
        => ret.exc = "none"

\* C5: multi_post calls post on every platform and does not raise.
C5_PublishAll ==
    ret.op = "multi_post" => ret.exc = "none" /\ ret.n = N

\* C6: once the concurrent aggregate_posts calls are over, no two posts of
\* the accumulated list share (platform, post_id).
C6_NoDuplicateAfterRace ==
    (\A t \in Threads : ~InFlight(t)) =>
        \A i, j \in DOMAIN posts : i # j => Identity(posts[i]) # Identity(posts[j])

\* The input positions whose post passes every filter on its own.
Kept(fs, input) ==
    {i \in DOMAIN input : \A k \in DOMAIN fs : CallFilter(fs[k], input[i])}

\* The n-th element of a set of positions, in increasing order.
Nth(S, n) == CHOOSE i \in S : Cardinality({m \in S : m < i}) = n - 1

\* C7: filter_posts keeps exactly the posts that pass every filter on their
\* own, in the order of the input; with no filter it keeps the input.
C7_FilterConjunction ==
    ret.op = "filter_posts" =>
        LET keep == Kept(filters, ret.arg) IN
        /\ Len(ret.val) = Cardinality(keep)
        /\ \A n \in 1..Len(ret.val) : ret.val[n] = ret.arg[Nth(keep, n)]
        /\ filters = <<>> => ret.val = ret.arg

\* Two filters, two posts: the first post passes one filter and not the
\* other and is dropped, the second passes both.
C7_Witness ==
    /\ ret.op = "filter_posts"
    /\ Len(filters) = 2 /\ Len(ret.arg) = 2
    /\ CallFilter(filters[1], ret.arg[1]) /\ ~CallFilter(filters[2], ret.arg[1])
    /\ ret.val = <<ret.arg[2]>>

\* C8: every identity of the accumulated list before a call is in it after
\* the call, and the list does not get shorter.
C8_OnlyGrows ==
    [][/\ \A i \in DOMAIN posts :
            \E j \in DOMAIN posts' : Identity(posts'[j]) = Identity(posts[i])
       /\ Len(posts') >= Len(posts)]_vars

\* filter_posts has dropped a post from its result and the accumulated
\* list still holds both.
C8_Witness ==
    /\ ret.op = "filter_posts"
    /\ Len(posts) = 2 /\ ret.arg = posts /\ Len(ret.val) = 1

\* C9: to_rss_item does not fail; the item holds the reserved values under
\* the five reserved keys, and the metadata under every other key.
C9_ReservedKeysWin ==
    ret.op = "to_rss_item" =>
        /\ ret.exc = "none"
        /\ \A k \in ReservedKeys : ret.val[k] = BaseItem(ret.arg)[k]
        /\ \A k \in DOMAIN ret.arg.metadata.items \ ReservedKeys :
              ret.val[k] = ret.arg.metadata.items[k]

\* C10: post and get_posts raise "Not authenticated." exactly when no
\* authenticate call has returned on that adapter; then the flag is false;
\* after an authenticate call that returned it is true.
C10_AuthenticatedGate ==
    /\ (ret.op \in {"post", "get_posts"} /\ ret.who \in Adapters) =>
          /\ ret.exc = "NotAuthenticated" <=> ret.who \notin authOk
          /\ ret.exc = "NotAuthenticated" => ~authenticated[ret.who]
    /\ \A a \in authOk : authenticated[a]

============================================================================
